---------------------------- MODULE Spec2Model ----------------------------
(***************************************************************************)
(* A model of the S3 synchronisation commands of pamazons3:                *)
(*                                                                         *)
(*   management/commands/__init__.py   S3File, S3UploadWorker, the global  *)
(*                                     multiprocessing queue               *)
(*   management/commands/s3-svnsync.py Command.handle and the revision     *)
(*                                     configuration kept in S3            *)
(*   management/commands/s3-push.py    Command.handle of the plain push    *)
(*                                                                         *)
(* The object store (boto), the working copy (pysvn) and the clock are the *)
(* environment: what they answer is drawn from small sets where the code   *)
(* reads it.  The state that survives a run is the object store: the two   *)
(* buckets, the keys of the media bucket and the revision configuration.   *)
(***************************************************************************)
EXTENDS Integers, Sequences, FiniteSets, TLC

\* ------------------------------------------------------------------ bounds
MaxRev == 4          \* revisions of the local repository are 1..MaxRev
MaxWorkers == 2      \* values of the --workers option are 0..MaxWorkers

\* ------------------------------------------------------- program constants
INITIAL_REVISION == -1
GZIP_MIN_SIZE == 1024

Workers == 1..MaxWorkers
Revisions == 1..MaxRev

\* ------------------------------------------------------------ environment
\* A key or path is the sequence of its dot-separated segments, so that
\* os.path.splitext is "all but the last segment" / "the last segment".
A_CSS == <<"a", "css">>
B_JS == <<"b", "js">>
IMG == <<"img">>

\* svn reports the entries of a diff in path order
PathOrder == <<A_CSS, B_JS, IMG>>
Paths == {PathOrder[i] : i \in 1..Len(PathOrder)}

NodeKind(p) == IF p = IMG THEN "dir" ELSE "file"

\* The committed history of MEDIA_ROOT: the content version of every path at
\* revision r (0: the path does not exist).  Revisions after the third do not
\* touch MEDIA_ROOT.
\*   r1: a.css added
\*   r2: a.css modified, b.js added, directory img added
\*   r3: b.js deleted, directory img deleted, a property of a.css changed
Tree(r) ==
    IF r <= 1 THEN (A_CSS :> 1 @@ B_JS :> 0 @@ IMG :> 0)
    ELSE IF r = 2 THEN (A_CSS :> 2 @@ B_JS :> 1 @@ IMG :> 1)
    ELSE (A_CSS :> 2 @@ B_JS :> 0 @@ IMG :> 0)

Props(r) ==
    IF r <= 2 THEN (A_CSS :> 0 @@ B_JS :> 0 @@ IMG :> 0)
    ELSE (A_CSS :> 1 @@ B_JS :> 0 @@ IMG :> 0)

\* the revision of the oldest log entry of MEDIA_ROOT
FirstRevision == 1

LocalUuid == "uuid-1"
Uuids == {LocalUuid, "uuid-2"}
Urls == {"file:///repo", "svn+ssh://host/repo"}

StatusKinds == {"normal", "modified", "none"}
Times == {1, 2}
Sizes == {GZIP_MIN_SIZE, GZIP_MIN_SIZE + 1}

VARIABLES
    \* ---- the object store: survives the runs
    svn_bucket_exists,  \* the bucket '<AWS_BUCKET_NAME>.svn' exists
    bucket_exists,      \* the media bucket exists
    svn_conf,           \* the svn_revision.yaml key of the svn bucket
    objects,            \* the keys of the media bucket
    \* ---- one run of a command
    hpc,                \* where Command.handle is
    opt,                \* the options of the run
    local_repo_info,    \* client.info(MEDIA_ROOT)
    s3_svn_revision,    \* the dict of handle
    changed_files,      \* the list of S3File of handle
    wc_status,          \* what client.status answers for the changed files
    outofsync_files,
    buffer,             \* multiprocessing.Queue: objects put, not yet in the pipe
    pipe,               \* multiprocessing.Queue: objects in the pipe
    wpc,                \* per worker: where S3UploadWorker is
    wjob,               \* per worker: the S3File it got
    exitcode,           \* per worker: Process.exitcode
    counts,             \* per worker: upload_count, skip_count, delete_count
    exit_code,          \* the exit status of the command
    \* ---- what the run did (history)
    exit_reason,
    log,                \* the jobs executed, in order
    net_ops,            \* the kinds of request sent to the object store
                        \* (get_conf, put_conf: of the svn_revision.yaml key)
    cp_writes,          \* the writes of svn_revision.yaml in this run
    conf_before,        \* svn_conf when the run began
    objects_before,     \* objects when the run began
    buckets_before      \* the buckets when the run began

store_vars == <<svn_bucket_exists, bucket_exists, svn_conf, objects>>
handle_vars == <<hpc, opt, local_repo_info, s3_svn_revision, changed_files,
                 wc_status, outofsync_files, exit_code, exit_reason>>
queue_vars == <<buffer, pipe>>
worker_vars == <<wpc, wjob, exitcode, counts>>
hist_vars == <<log, net_ops, cp_writes, conf_before, objects_before, buckets_before>>
vars == <<store_vars, handle_vars, queue_vars, worker_vars, hist_vars>>


\* ------------------------------------------------------------- pure parts

\* S3File.__init__
S3File(file_key, filename, delete) ==
    [file_key |-> file_key, filename |-> filename, delete |-> delete]

\* S3File.do_delete
do_delete(s3_file) == s3_file.delete

\* the key of the gzipped copy: ''.join([gz_filename, '.gz', gz_ext]) after
\* gz_filename, gz_ext = os.path.splitext(file_key)
GzFileKey(file_key) ==
    IF Len(file_key) >= 2
    THEN SubSeq(file_key, 1, Len(file_key) - 1) \o <<"gz">> \o <<file_key[Len(file_key)]>>
    ELSE file_key \o <<"gz">>

\* s3-push: file_key = self.prefix + file_key, the prefix joined to the first
\* segment of the key
PrefixedKey(prefix, file_key) == <<prefix \o Head(file_key)>> \o Tail(file_key)

\* mimetypes.guess_type(filename)[0]
guess_type(filename) ==
    LET ext == filename[Len(filename)] IN
    IF Len(filename) < 2 THEN "None"
    ELSE IF ext = "css" THEN "text/css"
    ELSE IF ext = "js" THEN "application/javascript"
    ELSE "None"

GZIP_CONTENT_TYPES == {"text/css", "application/javascript", "application/x-javascript"}

\* mutant: a file of exactly 1024 bytes is gzipped too
GzipWantedFromMinSize(file_size, content_type) ==
    file_size >= GZIP_MIN_SIZE /\ content_type \in GZIP_CONTENT_TYPES

\* S3UploadWorker.upload_s3: the test that gzips a file
GzipWanted(file_size, content_type) ==
    file_size > GZIP_MIN_SIZE /\ content_type \in GZIP_CONTENT_TYPES

\* S3UploadWorker.upload_s3: the test that skips a file the bucket holds
SkipUpload(local_datetime, s3_datetime) == local_datetime < s3_datetime

\* one entry of client.diff_summarize between two revisions ("none": the path
\* is not reported)
SummarizeKind(p, r1, r2) ==
    LET v1 == Tree(r1)[p]
        v2 == Tree(r2)[p]
    IN  IF v1 = 0 /\ v2 = 0 THEN "none"
        ELSE IF v1 = 0 THEN "added"
        ELSE IF v2 = 0 THEN "delete"
        ELSE IF v1 # v2 THEN "modified"
        ELSE IF Props(r1)[p] # Props(r2)[p] THEN "normal"
        ELSE "none"

\* client.diff_summarize(MEDIA_ROOT @ revision1, url @ revision2)
diff_summarize(revision1, revision2) ==
    LET all == [i \in 1..Len(PathOrder) |->
                  [path |-> PathOrder[i],
                   node_kind |-> NodeKind(PathOrder[i]),
                   summarize_kind |-> SummarizeKind(PathOrder[i], revision1, revision2)]]
    IN  SelectSeq(all, LAMBDA c : c.summarize_kind # "none")

\* mutant: no directory becomes an S3File, deleted or not
IsChangedFileNoDirectory(change) ==
    /\ change.node_kind = "file"
    /\ change.summarize_kind # "normal"

\* handle: whether a change becomes an S3File
IsChangedFile(change) ==
    /\ change.node_kind \in {"file", "dir"}
    /\ change.summarize_kind # "normal"
    /\ ~(change.node_kind = "dir" /\ change.summarize_kind # "delete")

\* handle: the list of S3File built from the changes
ChangedFiles(changes) ==
    LET kept == SelectSeq(changes, IsChangedFile)
    IN  [i \in 1..Len(kept) |->
            S3File(kept[i].path, kept[i].path, kept[i].summarize_kind = "delete")]

\* mutant: the status of the working copy is not looked at
IsOutOfSyncIgnored(status) == FALSE

\* handle: a file whose first status entry is not 'normal' is out of sync
\* ("none": client.status gave an empty list)
IsOutOfSync(status) == status # "none" /\ status \notin {"normal"}

\* mutant: only the first changed file is checked
OutOfSyncFilesFirstOnly(files, status) ==
    IF files = <<>> THEN <<>>
    ELSE SelectSeq(<<files[1]>>, LAMBDA f : IsOutOfSync(status[f.filename]))

OutOfSyncFiles(files, status) ==
    SelectSeq(files, LAMBDA f : IsOutOfSync(status[f.filename]))

RECURSIVE SumAbs(_, _)
SumAbs(codes, n) ==
    IF n = 0 THEN 0
    ELSE (IF codes[n] < 0 THEN -codes[n] ELSE codes[n]) + SumAbs(codes, n - 1)

\* mutant: the result says only whether some worker failed
ProcessResultFlag(codes, processes_count) ==
    IF \E w \in 1..processes_count : codes[w] # 0 THEN 1 ELSE 0

\* handle: sum([ abs(worker.exitcode) for worker in processes ])
ProcessResult(codes, processes_count) == SumAbs(codes, processes_count)

\* mutant: the revision is updated whatever the workers returned
AllCompletedAlways(process_result) == process_result >= 0

\* handle: 'if not process_result' guards the update of the revision
AllCompleted(process_result) == process_result = 0

\* handle: processes_count = int(options.get('processes')), at least 1
ProcessesCount(processes) == IF processes < 1 THEN 1 ELSE processes

\* get_s3_svn_revision: the dict before the yaml of the key is merged in
DefaultRevision ==
    [url |-> "", revision |-> INITIAL_REVISION, last_update |-> "None",
     uuid |-> "None", initial_revision |-> 0]

\* the svn_revision.yaml key: absent, or the yaml of a revision dict
NoKey == [present |-> FALSE, data |-> DefaultRevision]
KeyOf(s3_revision) == [present |-> TRUE, data |-> s3_revision]

\* mutant: the key is written in a dry run too
SetS3RevisionAlways(conf, s3_revision, dryrun) == KeyOf(s3_revision)

\* set_s3_revision: the key after the call
SetS3Revision(conf, s3_revision, dryrun) ==
    IF dryrun THEN conf ELSE KeyOf(s3_revision)

\* the revision a run reads from the store
StoredRevision(conf) == IF conf.present THEN conf.data.revision ELSE INITIAL_REVISION

NoJob == S3File(<<>>, <<>>, FALSE)
NoCounts == [upload |-> 0, skip |-> 0, delete |-> 0]
NoOptions ==
    [cmd |-> "none", dryrun |-> FALSE, gzip |-> FALSE, force |-> FALSE,
     ignore_url |-> FALSE, processes_count |-> 0, prefix |-> ""]
NoInfo == [url |-> "", uuid |-> "None", revision |-> 0]
NoStatus == [p \in {} |-> "none"]

Alive(w) == wpc[w] \in {"loop", "get", "exec"}
Started == {w \in Workers : wpc[w] \notin {"unborn", "init"}}

\* ------------------------------------------------------------------- Init

Init ==
    /\ svn_bucket_exists = FALSE
    /\ bucket_exists = FALSE
    /\ svn_conf = NoKey
    /\ objects = {}
    /\ hpc = "idle"
    /\ opt = NoOptions
    /\ local_repo_info = NoInfo
    /\ s3_svn_revision = DefaultRevision
    /\ changed_files = <<>>
    /\ wc_status = NoStatus
    /\ outofsync_files = <<>>
    /\ buffer = <<>>
    /\ pipe = <<>>
    /\ wpc = [w \in Workers |-> "unborn"]
    /\ wjob = [w \in Workers |-> NoJob]
    /\ exitcode = [w \in Workers |-> 0]
    /\ counts = [w \in Workers |-> NoCounts]
    /\ exit_code = 0
    /\ exit_reason = "none"
    /\ log = <<>>
    /\ net_ops = {}
    /\ cp_writes = 0
    /\ conf_before = NoKey
    /\ objects_before = {}
    /\ buckets_before = <<FALSE, FALSE>>

\* --------------------------------------------------------------- a new run

\* A command is invoked: a fresh process with the options of its command line
\* and the working copy as it is now.
Invoke(cmd, dryrun, gzip, force, ignore_url, processes, prefix, url, uuid, revision) ==
    /\ hpc = "idle"
    /\ hpc' = "start"
    /\ opt' = [cmd |-> cmd, dryrun |-> dryrun, gzip |-> gzip, force |-> force,
               ignore_url |-> ignore_url,
               processes_count |-> ProcessesCount(processes),
               prefix |-> prefix]
    /\ local_repo_info' = [url |-> url, uuid |-> uuid, revision |-> revision]
    /\ conf_before' = svn_conf
    /\ objects_before' = objects
    /\ buckets_before' = <<svn_bucket_exists, bucket_exists>>
    /\ UNCHANGED <<store_vars, s3_svn_revision, changed_files, wc_status,
                   outofsync_files, exit_code, exit_reason, queue_vars,
                   worker_vars, log, net_ops, cp_writes>>

\* The process of a run is over (handle has ended and no worker process is
\* left): nothing of it remains but what it left in the object store.
ProcessEnd ==
    /\ hpc = "exit"
    /\ \A w \in Workers : ~Alive(w)
    /\ hpc' = "idle"
    /\ opt' = NoOptions
    /\ local_repo_info' = NoInfo
    /\ s3_svn_revision' = DefaultRevision
    /\ changed_files' = <<>>
    /\ wc_status' = NoStatus
    /\ outofsync_files' = <<>>
    /\ buffer' = <<>>
    /\ pipe' = <<>>
    /\ wpc' = [w \in Workers |-> "unborn"]
    /\ wjob' = [w \in Workers |-> NoJob]
    /\ exitcode' = [w \in Workers |-> 0]
    /\ counts' = [w \in Workers |-> NoCounts]
    /\ exit_code' = 0
    /\ exit_reason' = "none"
    /\ log' = <<>>
    /\ net_ops' = {}
    /\ cp_writes' = 0
    /\ conf_before' = NoKey
    /\ objects_before' = {}
    /\ buckets_before' = <<FALSE, FALSE>>
    /\ UNCHANGED store_vars

\* python manage.py s3-svnsync: the option list of this command has no
\* --force and no --prefix
InvokeSvnSync ==
    \E dryrun \in BOOLEAN, gzip \in BOOLEAN, processes \in 0..MaxWorkers,
       revision \in Revisions :
        Invoke("s3-svnsync", dryrun, gzip, TRUE, FALSE, processes, "",
               "file:///repo", LocalUuid, revision)

\* python manage.py s3-svnsync [--ignore-url] [--dryrun] with one worker, the
\* working copy having been checked out from either url, of a repository
\* with either uuid
InvokeSvnSyncUrl ==
    \E dryrun \in BOOLEAN, ignore_url \in BOOLEAN, url \in Urls, uuid \in Uuids,
       revision \in Revisions :
        Invoke("s3-svnsync", dryrun, FALSE, TRUE, ignore_url, 1, "", url, uuid,
               revision)

\* the prefixes a caller hands to handle
Prefixes == {"", "static/"}

\* call_command('s3-svnsync', prefix=...): handle takes the prefix from its
\* options, which the command line cannot set
InvokeSvnSyncPrefix ==
    \E prefix \in Prefixes, gzip \in BOOLEAN, revision \in Revisions :
        Invoke("s3-svnsync", FALSE, gzip, TRUE, FALSE, 1, prefix,
               "file:///repo", LocalUuid, revision)

\* python manage.py s3-push: every file of MEDIA_ROOT is pushed
InvokePush ==
    \E dryrun \in BOOLEAN, force \in BOOLEAN, processes \in 0..MaxWorkers,
       revision \in Revisions :
        Invoke("s3-push", dryrun, FALSE, force, FALSE, processes, "",
               "file:///repo", LocalUuid, revision)

\* ------------------------------------------------------ s3-svnsync: handle

\* mutant: a missing key is read as the default dict and not created
GetS3SvnRevisionReadOnly ==
    /\ hpc = "start"
    /\ opt.cmd = "s3-svnsync"
    /\ svn_bucket_exists' = TRUE
    /\ s3_svn_revision' = IF svn_conf.present THEN svn_conf.data ELSE DefaultRevision
    /\ svn_conf' = svn_conf
    /\ cp_writes' = cp_writes
    /\ net_ops' = net_ops \cup {"get_bucket", "get_conf"}
                    \cup (IF svn_bucket_exists THEN {} ELSE {"create_bucket"})
    /\ hpc' = "resolve"
    /\ UNCHANGED <<bucket_exists, objects, opt, local_repo_info, changed_files,
                   wc_status, outofsync_files, exit_code, exit_reason,
                   queue_vars, worker_vars, log, conf_before, objects_before,
                   buckets_before>>

\* s3_svn_revision = self.get_s3_svn_revision(): get_s3_svn_bucket creates the
\* svn bucket when it is missing; a missing key is created from the default
\* dict by set_s3_revision; a present key is merged into the default dict.
GetS3SvnRevision ==
    /\ hpc = "start"
    /\ opt.cmd = "s3-svnsync"
    /\ svn_bucket_exists' = TRUE
    /\ s3_svn_revision' = IF svn_conf.present THEN svn_conf.data ELSE DefaultRevision
    /\ svn_conf' = IF svn_conf.present THEN svn_conf
                   ELSE SetS3Revision(svn_conf, DefaultRevision, opt.dryrun)
    /\ cp_writes' = IF svn_conf.present \/ opt.dryrun THEN cp_writes ELSE cp_writes + 1
    /\ net_ops' = net_ops \cup {"get_bucket", "get_conf"}
                    \cup (IF svn_bucket_exists THEN {} ELSE {"create_bucket"})
                    \cup (IF svn_conf.present \/ opt.dryrun THEN {} ELSE {"put_conf"})
    /\ hpc' = "resolve"
    /\ UNCHANGED <<bucket_exists, objects, opt, local_repo_info, changed_files,
                   wc_status, outofsync_files, exit_code, exit_reason,
                   queue_vars, worker_vars, log, conf_before, objects_before,
                   buckets_before>>

\* mutant: every run starts from the first revision of the log
FromRevisionOfLog(s3_revision) == FirstRevision

\* handle: the revision the diff starts from
FromRevision(s3_revision) ==
    IF s3_revision.revision = INITIAL_REVISION THEN FirstRevision
    ELSE s3_revision.revision

\* mutant: --ignore-url is not looked at
UrlMismatchWhateverOption(s3_revision, info, ignore_svn_url) ==
    /\ s3_revision.url # ""
    /\ s3_revision.url # info.url

\* handle: the stored url does not match the url of the local repository
UrlMismatch(s3_revision, info, ignore_svn_url) ==
    /\ s3_revision.url # ""
    /\ s3_revision.url # info.url
    /\ ~ignore_svn_url

\* mutant: the stored uuid is kept
WithRepoInfoKeepsUuid(s3_revision, info, ignore_svn_url) ==
    [s3_revision EXCEPT
        !.revision = FromRevision(s3_revision),
        !.initial_revision = IF s3_revision.revision = INITIAL_REVISION
                             THEN FirstRevision ELSE @,
        !.url = IF ignore_svn_url THEN @ ELSE info.url]

\* handle: the dict once the first revision, the url and the uuid are set
WithRepoInfo(s3_revision, info, ignore_svn_url) ==
    [s3_revision EXCEPT
        !.revision = FromRevision(s3_revision),
        !.initial_revision = IF s3_revision.revision = INITIAL_REVISION
                             THEN FirstRevision ELSE @,
        !.url = IF ignore_svn_url THEN @ ELSE info.url,
        !.uuid = info.uuid]

\* handle, from the first revision to the list of changed files; the working
\* copy answers client.status for each of them
ComputeChanges ==
    /\ hpc = "resolve"
    /\ IF UrlMismatch(s3_svn_revision, local_repo_info, opt.ignore_url)
       THEN /\ hpc' = "exit"
            /\ exit_code' = 1
            /\ exit_reason' = "url_mismatch"
            /\ s3_svn_revision' =
                 [s3_svn_revision EXCEPT
                    !.revision = FromRevision(s3_svn_revision),
                    !.initial_revision = IF s3_svn_revision.revision = INITIAL_REVISION
                                         THEN FirstRevision ELSE @]
            /\ UNCHANGED <<changed_files, wc_status>>
       ELSE /\ hpc' = "status"
            /\ s3_svn_revision' =
                 WithRepoInfo(s3_svn_revision, local_repo_info, opt.ignore_url)
            /\ changed_files' =
                 ChangedFiles(diff_summarize(FromRevision(s3_svn_revision),
                                             local_repo_info.revision))
            /\ wc_status' \in
                 [{changed_files'[i].filename : i \in 1..Len(changed_files')}
                    -> StatusKinds]
            /\ UNCHANGED <<exit_code, exit_reason>>
    /\ UNCHANGED <<store_vars, opt, local_repo_info, outofsync_files,
                   queue_vars, worker_vars, hist_vars>>

\* mutant: a run without changes stores the revision of the working copy
CheckSyncStoresRevision ==
    /\ hpc = "status"
    /\ outofsync_files' = OutOfSyncFiles(changed_files, wc_status)
    /\ IF outofsync_files' # <<>>
       THEN /\ hpc' = "exit"
            /\ exit_code' = 1
            /\ exit_reason' = "outofsync"
            /\ UNCHANGED wc_status
       ELSE IF changed_files = <<>>
       THEN /\ hpc' = "exit"
            /\ exit_code' = 0
            /\ exit_reason' = "nochanges"
            /\ UNCHANGED wc_status
       ELSE /\ hpc' = "load"
            /\ wc_status' = NoStatus
            /\ UNCHANGED <<exit_code, exit_reason>>
    /\ svn_conf' = IF outofsync_files' = <<>> /\ changed_files = <<>>
                   THEN KeyOf([s3_svn_revision EXCEPT !.revision = local_repo_info.revision])
                   ELSE svn_conf
    /\ UNCHANGED <<svn_bucket_exists, bucket_exists, objects, opt, local_repo_info,
                   s3_svn_revision, changed_files, queue_vars, worker_vars,
                   hist_vars>>

\* handle: the out-of-sync check and the two early exits
CheckSync ==
    /\ hpc = "status"
    /\ outofsync_files' = OutOfSyncFiles(changed_files, wc_status)
    /\ IF outofsync_files' # <<>>
       THEN /\ hpc' = "exit"
            /\ exit_code' = 1
            /\ exit_reason' = "outofsync"
            /\ UNCHANGED wc_status
       ELSE IF changed_files = <<>>
       THEN /\ hpc' = "exit"
            /\ exit_code' = 0
            /\ exit_reason' = "nochanges"
            /\ UNCHANGED wc_status
       ELSE /\ hpc' = "load"
            /\ wc_status' = NoStatus
            /\ UNCHANGED <<exit_code, exit_reason>>
    /\ UNCHANGED <<store_vars, opt, local_repo_info, s3_svn_revision,
                   changed_files, queue_vars, worker_vars, hist_vars>>

\* handle: [ get_queue().put(s3_file) for s3_file in changed_files ]; put
\* leaves the objects with the feeder thread of the queue
LoadQueue ==
    /\ hpc = "load"
    /\ buffer' = buffer \o changed_files
    /\ hpc' = "construct"
    /\ UNCHANGED <<store_vars, opt, local_repo_info, s3_svn_revision,
                   changed_files, wc_status, outofsync_files, exit_code,
                   exit_reason, pipe, worker_vars, hist_vars>>

\* multiprocessing.Queue: the feeder thread of the parent moves an object
\* from the buffer into the pipe, where empty() and get() see it
Feeder ==
    /\ hpc \notin {"idle", "exit"}
    /\ buffer # <<>>
    /\ pipe' = Append(pipe, Head(buffer))
    /\ buffer' = Tail(buffer)
    /\ UNCHANGED <<store_vars, handle_vars, worker_vars, hist_vars>>

\* the next worker the list comprehension of handle constructs
NextWorker == CHOOSE w \in Workers : wpc[w] = "unborn" /\ \A v \in 1..(w-1) : wpc[v] # "unborn"

AllConstructed == \A w \in 1..opt.processes_count : wpc[w] # "unborn"

\* mutant: a worker that cannot connect is given up and the others go on
ConstructWorkerIsolated ==
    /\ hpc = "construct"
    /\ ~AllConstructed
    /\ \E ok \in BOOLEAN :
        IF ok
        THEN /\ wpc' = [wpc EXCEPT ![NextWorker] = "init"]
             /\ bucket_exists' = TRUE
             /\ net_ops' = net_ops \cup {"get_bucket"}
                             \cup (IF bucket_exists THEN {} ELSE {"create_bucket"})
             /\ UNCHANGED <<exitcode, exit_reason>>
        ELSE /\ wpc' = [wpc EXCEPT ![NextWorker] = "exited"]
             /\ exitcode' = [exitcode EXCEPT ![NextWorker] = 1]
             /\ exit_reason' = "init_error"
             /\ UNCHANGED <<bucket_exists, net_ops>>
    /\ UNCHANGED <<svn_bucket_exists, svn_conf, objects, hpc, opt, local_repo_info,
                   s3_svn_revision, changed_files, wc_status, outofsync_files,
                   exit_code, queue_vars, wjob, counts, log, cp_writes,
                   conf_before, objects_before, buckets_before>>

\* S3UploadWorker.__init__, run in the parent: connects and looks the bucket
\* up, creating it when it is missing.  An error of the connection is not
\* caught: it ends handle.
ConstructWorker ==
    /\ hpc = "construct"
    /\ ~AllConstructed
    /\ \E ok \in BOOLEAN :
        IF ok
        THEN /\ wpc' = [wpc EXCEPT ![NextWorker] = "init"]
             /\ bucket_exists' = TRUE
             /\ net_ops' = net_ops \cup {"get_bucket"}
                             \cup (IF bucket_exists THEN {} ELSE {"create_bucket"})
             /\ UNCHANGED <<hpc, exit_code, exit_reason>>
        ELSE /\ hpc' = "exit"
             /\ exit_code' = 1
             /\ exit_reason' = "init_error"
             /\ UNCHANGED <<wpc, bucket_exists, net_ops>>
    /\ UNCHANGED <<svn_bucket_exists, svn_conf, objects, opt, local_repo_info,
                   s3_svn_revision, changed_files, wc_status, outofsync_files,
                   queue_vars, wjob, exitcode, counts, log, cp_writes,
                   conf_before, objects_before, buckets_before>>

\* handle: for s3_worker in processes: s3_worker.start()
StartWorkers ==
    /\ hpc = "construct"
    /\ AllConstructed
    /\ wpc' = [w \in Workers |-> IF wpc[w] = "init" THEN "loop" ELSE wpc[w]]
    /\ hpc' = IF opt.cmd = "s3-svnsync" THEN "poll" ELSE "returned"
    /\ UNCHANGED <<store_vars, opt, local_repo_info, s3_svn_revision,
                   changed_files, wc_status, outofsync_files, exit_code,
                   exit_reason, queue_vars, wjob, exitcode, counts, hist_vars>>

\* mutant: the revision of the local repository is not stored
CompletedRevisionStale(s3_revision, info) ==
    [s3_revision EXCEPT !.last_update = "now"]

\* handle: the dict stored once all workers completed
CompletedRevision(s3_revision, info) ==
    [s3_revision EXCEPT !.revision = info.revision, !.last_update = "now"]

\* mutant: handle does not wait for the workers to end
PollWithoutWaiting ==
    /\ hpc = "poll"
    /\ LET process_result == ProcessResult(exitcode, opt.processes_count) IN
       IF AllCompleted(process_result)
       THEN /\ s3_svn_revision' = CompletedRevision(s3_svn_revision, local_repo_info)
            /\ svn_conf' = SetS3Revision(svn_conf, s3_svn_revision', opt.dryrun)
            /\ cp_writes' = IF opt.dryrun THEN cp_writes ELSE cp_writes + 1
            /\ net_ops' = net_ops \cup {"get_bucket", "get_conf"}
                            \cup (IF opt.dryrun THEN {} ELSE {"put_conf"})
            /\ exit_code' = 0
            /\ exit_reason' = "finished"
       ELSE /\ exit_code' = process_result
            /\ exit_reason' = "worker_failed"
            /\ UNCHANGED <<s3_svn_revision, svn_conf, cp_writes, net_ops>>
    /\ hpc' = "exit"
    /\ UNCHANGED <<svn_bucket_exists, bucket_exists, objects, opt,
                   local_repo_info, changed_files, wc_status, outofsync_files,
                   queue_vars, worker_vars, log, conf_before, objects_before,
                   buckets_before>>

\* handle: the polling loop, once no worker is alive
Poll ==
    /\ hpc = "poll"
    /\ \A w \in Workers : ~Alive(w)
    /\ LET process_result == ProcessResult(exitcode, opt.processes_count) IN
       IF AllCompleted(process_result)
       THEN /\ s3_svn_revision' = CompletedRevision(s3_svn_revision, local_repo_info)
            /\ svn_conf' = SetS3Revision(svn_conf, s3_svn_revision', opt.dryrun)
            /\ cp_writes' = IF opt.dryrun THEN cp_writes ELSE cp_writes + 1
            /\ net_ops' = net_ops \cup {"get_bucket", "get_conf"}
                            \cup (IF opt.dryrun THEN {} ELSE {"put_conf"})
            /\ exit_code' = 0
            /\ exit_reason' = "finished"
       ELSE /\ exit_code' = process_result
            /\ exit_reason' = "worker_failed"
            /\ UNCHANGED <<s3_svn_revision, svn_conf, cp_writes, net_ops>>
    /\ hpc' = "exit"
    /\ UNCHANGED <<svn_bucket_exists, bucket_exists, objects, opt,
                   local_repo_info, changed_files, wc_status, outofsync_files,
                   queue_vars, worker_vars, log, conf_before, objects_before,
                   buckets_before>>

\* --------------------------------------------------------- s3-push: handle

\* handle: os.walk(media_root) queues an upload of every file of MEDIA_ROOT
WalkFiles(revision) ==
    LET files == SelectSeq(PathOrder,
                    LAMBDA p : NodeKind(p) = "file" /\ Tree(revision)[p] > 0)
    IN  [i \in 1..Len(files) |-> S3File(files[i], files[i], FALSE)]

PushQueue ==
    /\ hpc = "start"
    /\ opt.cmd = "s3-push"
    /\ changed_files' = WalkFiles(local_repo_info.revision)
    /\ buffer' = buffer \o changed_files'
    /\ hpc' = "construct"
    /\ UNCHANGED <<store_vars, opt, local_repo_info, s3_svn_revision, wc_status,
                   outofsync_files, exit_code, exit_reason, pipe, worker_vars,
                   hist_vars>>

\* handle has returned; the process ends with its last worker
PushExit ==
    /\ hpc = "returned"
    /\ \A w \in Workers : ~Alive(w)
    /\ hpc' = "exit"
    /\ exit_code' = 0
    /\ exit_reason' = "returned"
    /\ UNCHANGED <<store_vars, opt, local_repo_info, s3_svn_revision,
                   changed_files, wc_status, outofsync_files, queue_vars,
                   worker_vars, hist_vars>>

\* ------------------------------------------------------- S3UploadWorker.run

LogEntry(w, s3_file, result, s3_datetime, local_datetime, file_size, before, after) ==
    [worker |-> w, file_key |-> s3_file.file_key, delete |-> s3_file.delete,
     result |-> result, s3_datetime |-> s3_datetime,
     local_datetime |-> local_datetime, file_size |-> file_size,
     wrote |-> after \ before, removed |-> before \ after]

\* run: 'if get_queue().empty(): break', and what follows the loop
QueueEmpty(w) ==
    /\ wpc[w] = "loop"
    /\ IF pipe = <<>>
       THEN /\ wpc' = [wpc EXCEPT ![w] = "exited"]
            /\ exitcode' = [exitcode EXCEPT ![w] = 0]
       ELSE /\ wpc' = [wpc EXCEPT ![w] = "get"]
            /\ UNCHANGED exitcode
    /\ UNCHANGED <<store_vars, handle_vars, queue_vars, wjob, counts, hist_vars>>

\* mutant: get() hands the object over and leaves it in the queue
QueueGetLeavesObject(w) ==
    /\ wpc[w] = "get"
    /\ pipe # <<>>
    /\ wjob' = [wjob EXCEPT ![w] = Head(pipe)]
    /\ wpc' = [wpc EXCEPT ![w] = "exec"]
    /\ UNCHANGED <<store_vars, handle_vars, pipe, buffer, exitcode, counts, hist_vars>>

\* run: s3_file = get_queue().get(), which waits for an object (get has no
\* timeout, so the 'except: break' around it is not reached by an empty queue)
QueueGet(w) ==
    /\ wpc[w] = "get"
    /\ pipe # <<>>
    /\ wjob' = [wjob EXCEPT ![w] = Head(pipe)]
    /\ pipe' = Tail(pipe)
    /\ wpc' = [wpc EXCEPT ![w] = "exec"]
    /\ UNCHANGED <<store_vars, handle_vars, buffer, exitcode, counts, hist_vars>>

\* mutant: the exception is swallowed and run goes on with the next file
RaisedSwallowed(w) ==
    /\ wpc' = [wpc EXCEPT ![w] = "loop"]
    /\ UNCHANGED exitcode

\* an exception leaves run: the worker process ends with exit code 1
Raised(w) ==
    /\ wpc' = [wpc EXCEPT ![w] = "exited"]
    /\ exitcode' = [exitcode EXCEPT ![w] = 1]

\* mutant: the gzipped copy is left in the bucket
AfterDeletePrimaryOnly(keys, file_key, dry_run) ==
    IF dry_run THEN keys ELSE keys \ {file_key}

\* delete_s3: the keys left in the bucket
AfterDelete(keys, file_key, dry_run) ==
    IF dry_run THEN keys ELSE keys \ {file_key, GzFileKey(file_key)}

\* S3UploadWorker.delete_s3; an error of bucket.delete_key is not caught
DeleteS3(w) ==
    /\ wpc[w] = "exec"
    /\ do_delete(wjob[w])
    /\ \E outcome \in {"ok", "S3ResponseError"} :
        /\ outcome = "S3ResponseError" => ~opt.dryrun
        /\ IF outcome = "ok"
           THEN /\ objects' = AfterDelete(objects, wjob[w].file_key, opt.dryrun)
                /\ counts' = [counts EXCEPT ![w].delete = @ + 1]
                /\ wpc' = [wpc EXCEPT ![w] = "loop"]
                /\ net_ops' = net_ops \cup
                     (IF opt.dryrun THEN {} ELSE {"delete_key", "get_key"})
                /\ log' = Append(log, LogEntry(w, wjob[w], "deleted", 0, 0, 0,
                                               objects, objects'))
                /\ UNCHANGED exitcode
           ELSE /\ Raised(w)
                /\ net_ops' = net_ops \cup {"delete_key"}
                /\ log' = Append(log, LogEntry(w, wjob[w], "store_error", 0, 0, 0,
                                               objects, objects))
                /\ UNCHANGED <<objects, counts>>
    /\ UNCHANGED <<svn_bucket_exists, bucket_exists, svn_conf, handle_vars,
                   queue_vars, wjob, cp_writes, conf_before, objects_before,
                   buckets_before>>

\* upload_s3: the keys in the bucket after the two set_contents_from_string
AfterUpload(keys, file_key, do_gzip, dry_run, file_size, content_type) ==
    IF dry_run THEN keys
    ELSE keys \cup {file_key}
              \cup (IF do_gzip /\ GzipWanted(file_size, content_type)
                    THEN {GzFileKey(file_key)} ELSE {})

\* S3UploadWorker.upload_s3.  The store answers get_key with the time the key
\* was last modified, the file system with the mtime and the size of the file.
\* outcome: "ok"; "S3CreateError", an error of the store that is caught and
\* printed; "S3ResponseError", any other error of the store, printed and raised
\* again; "IOError", the file cannot be read, which nothing catches.
UploadS3(w) ==
    /\ wpc[w] = "exec"
    /\ ~do_delete(wjob[w])
    /\ \E outcome \in {"ok", "S3CreateError", "S3ResponseError", "IOError"},
          s3_datetime \in Times, local_datetime \in Times, file_size \in Sizes :
        LET s3_file == wjob[w]
            content_type == guess_type(s3_file.filename)
            compared == ~opt.force /\ s3_file.file_key \in objects
            s3_t == IF compared THEN s3_datetime ELSE 0
            local_t == IF compared THEN local_datetime ELSE 0
            gzips == opt.gzip /\ ~opt.dryrun /\ content_type \in GZIP_CONTENT_TYPES
            size == IF gzips THEN file_size ELSE 0
            looked == IF opt.force THEN {} ELSE {"get_key"}
        IN
        IF compared /\ SkipUpload(local_datetime, s3_datetime)
        THEN /\ outcome = "ok" /\ file_size = GZIP_MIN_SIZE
             /\ counts' = [counts EXCEPT ![w].skip = @ + 1]
             /\ wpc' = [wpc EXCEPT ![w] = "loop"]
             /\ net_ops' = net_ops \cup looked
             /\ log' = Append(log, LogEntry(w, s3_file, "skipped", s3_t, local_t, 0,
                                            objects, objects))
             /\ UNCHANGED <<objects, exitcode>>
        ELSE /\ ~compared => (s3_datetime = 1 /\ local_datetime = 1)
             /\ (~gzips \/ outcome # "ok") => file_size = GZIP_MIN_SIZE
             /\ outcome \in {"S3CreateError", "S3ResponseError"} => ~opt.dryrun
             /\ IF outcome = "ok"
                THEN /\ objects' = AfterUpload(objects, s3_file.file_key, opt.gzip,
                                               opt.dryrun, file_size, content_type)
                     /\ counts' = [counts EXCEPT ![w].upload = @ + 1]
                     /\ wpc' = [wpc EXCEPT ![w] = "loop"]
                     /\ net_ops' = net_ops \cup looked \cup
                          (IF opt.dryrun THEN {} ELSE {"put"})
                     /\ log' = Append(log, LogEntry(w, s3_file, "uploaded", s3_t,
                                                    local_t, size, objects, objects'))
                     /\ UNCHANGED exitcode
                ELSE IF outcome = "S3CreateError"
                THEN /\ wpc' = [wpc EXCEPT ![w] = "loop"]
                     /\ net_ops' = net_ops \cup looked \cup {"put"}
                     /\ log' = Append(log, LogEntry(w, s3_file, "failed", s3_t,
                                                    local_t, 0, objects, objects))
                     /\ UNCHANGED <<objects, counts, exitcode>>
                ELSE /\ Raised(w)
                     /\ net_ops' = net_ops \cup looked \cup
                          (IF outcome = "IOError" THEN {} ELSE {"put"})
                     /\ log' = Append(log, LogEntry(w, s3_file,
                                  IF outcome = "IOError" THEN "raised" ELSE "store_error",
                                  s3_t, local_t, 0, objects, objects))
                     /\ UNCHANGED <<objects, counts>>
    /\ UNCHANGED <<svn_bucket_exists, bucket_exists, svn_conf, handle_vars,
                   queue_vars, wjob, cp_writes, conf_before, objects_before,
                   buckets_before>>

\* ------------------------------------------------------------------- Next

Next ==
    \/ InvokeSvnSync
    \/ ProcessEnd
    \/ GetS3SvnRevision
    \/ ComputeChanges
    \/ CheckSync
    \/ LoadQueue
    \/ Feeder
    \/ ConstructWorker
    \/ StartWorkers
    \/ Poll
    \/ \E w \in Workers : QueueEmpty(w)
    \/ \E w \in Workers : QueueGet(w)
    \/ \E w \in Workers : DeleteS3(w)
    \/ \E w \in Workers : UploadS3(w)

Spec == Init /\ [][Next]_vars

\* the s3-push command alone
NextPush ==
    \/ InvokePush
    \/ ProcessEnd
    \/ PushQueue
    \/ Feeder
    \/ ConstructWorker
    \/ StartWorkers
    \/ PushExit
    \/ \E w \in Workers : QueueEmpty(w)
    \/ \E w \in Workers : QueueGet(w)
    \/ \E w \in Workers : UploadS3(w)

SpecPush == Init /\ [][NextPush]_vars

\* s3-svnsync with the url of the working copy and --ignore-url varying
NextUrl ==
    \/ InvokeSvnSyncUrl
    \/ ProcessEnd
    \/ GetS3SvnRevision
    \/ ComputeChanges
    \/ CheckSync
    \/ LoadQueue
    \/ Feeder
    \/ ConstructWorker
    \/ StartWorkers
    \/ Poll
    \/ \E w \in Workers : QueueEmpty(w)
    \/ \E w \in Workers : QueueGet(w)
    \/ \E w \in Workers : DeleteS3(w)
    \/ \E w \in Workers : UploadS3(w)

SpecUrl == Init /\ [][NextUrl]_vars

\* s3-svnsync called with a prefix among its options
NextPrefix ==
    \/ InvokeSvnSyncPrefix
    \/ ProcessEnd
    \/ GetS3SvnRevision
    \/ ComputeChanges
    \/ CheckSync
    \/ LoadQueue
    \/ Feeder
    \/ ConstructWorker
    \/ StartWorkers
    \/ Poll
    \/ \E w \in Workers : QueueEmpty(w)
    \/ \E w \in Workers : QueueGet(w)
    \/ \E w \in Workers : DeleteS3(w)
    \/ \E w \in Workers : UploadS3(w)

SpecPrefix == Init /\ [][NextPrefix]_vars

\* The queue and the workers alone, for any list of two changed files: the
\* paths, in the order svn reports them, include a file named like the gzipped
\* copy of another.
A_GZ_CSS == <<"a", "gz", "css">>
KeyOrder == <<A_CSS, A_GZ_CSS, B_JS>>

\* handle: the lists of two S3File with distinct paths
ChangeSets ==
    {<<S3File(KeyOrder[q[1]], KeyOrder[q[1]], q[3]),
       S3File(KeyOrder[q[2]], KeyOrder[q[2]], q[4])>> :
        q \in {r \in (DOMAIN KeyOrder) \X (DOMAIN KeyOrder) \X BOOLEAN \X BOOLEAN :
                    r[1] < r[2]}}

\* handle of 's3-svnsync --gzip --workers MaxWorkers' where it loads the
\* queue, in the first run against an empty store: the svn bucket and the
\* default revision key have been created, the working copy is in sync
InitKeys ==
    /\ svn_bucket_exists = TRUE
    /\ bucket_exists = FALSE
    /\ svn_conf = KeyOf(DefaultRevision)
    /\ objects = {}
    /\ hpc = "load"
    /\ opt = [cmd |-> "s3-svnsync", dryrun |-> FALSE, gzip |-> TRUE, force |-> TRUE,
              ignore_url |-> FALSE, processes_count |-> ProcessesCount(MaxWorkers),
              prefix |-> ""]
    /\ local_repo_info = [url |-> "file:///repo", uuid |-> LocalUuid, revision |-> 2]
    /\ s3_svn_revision = WithRepoInfo(DefaultRevision, local_repo_info, FALSE)
    /\ changed_files \in ChangeSets
    /\ wc_status = NoStatus
    /\ outofsync_files = <<>>
    /\ buffer = <<>>
    /\ pipe = <<>>
    /\ wpc = [w \in Workers |-> "unborn"]
    /\ wjob = [w \in Workers |-> NoJob]
    /\ exitcode = [w \in Workers |-> 0]
    /\ counts = [w \in Workers |-> NoCounts]
    /\ exit_code = 0
    /\ exit_reason = "none"
    /\ log = <<>>
    /\ net_ops = {"get_bucket", "create_bucket", "get_conf", "put_conf"}
    /\ cp_writes = 1
    /\ conf_before = NoKey
    /\ objects_before = {}
    /\ buckets_before = <<FALSE, FALSE>>

NextKeys ==
    \/ LoadQueue
    \/ Feeder
    \/ ConstructWorker
    \/ StartWorkers
    \/ Poll
    \/ ProcessEnd
    \/ \E w \in Workers : QueueEmpty(w)
    \/ \E w \in Workers : QueueGet(w)
    \/ \E w \in Workers : DeleteS3(w)
    \/ \E w \in Workers : UploadS3(w)

SpecKeys == InitKeys /\ [][NextKeys]_vars

\* ----------------------------------------------------------------- claims

Running == hpc \notin {"idle"}
Ended == hpc = "exit"
Failed(w) == wpc[w] = "exited" /\ exitcode[w] # 0
Succeeded(w) == wpc[w] = "exited" /\ exitcode[w] = 0
Constructed == {w \in Workers : wpc[w] # "unborn"}
LogOf(w) == SelectSeq(log, LAMBDA e : e.worker = w)
Executed == {log[i].file_key : i \in DOMAIN log}
Queued == {changed_files[i].file_key : i \in DOMAIN changed_files}
RevisionBefore == StoredRevision(conf_before)
RevisionNow == StoredRevision(svn_conf)

\* C1: checkpoint atomicity.  From the moment a worker of an s3-svnsync run
\* has ended with a non-zero exit code, and so at the end of that run, the
\* revision stored in S3 is the one stored when the run began.
C1_CheckpointAtomicity ==
    (\E w \in Workers : Failed(w)) => RevisionNow = RevisionBefore

\* C1 witness: a run that was not a dry run ended with a failed worker beside
\* a successful one, and its local revision differs from the stored one
C1_Witness ==
    /\ Ended /\ ~opt.dryrun
    /\ \E w \in Workers : Failed(w)
    /\ \E w \in Workers : Succeeded(w) /\ LogOf(w) # <<>>
    /\ RevisionBefore # local_repo_info.revision
    /\ conf_before.present

\* C2 (as claimed): a job that failed against the store, the error caught and
\* printed by the worker or not, gives a run that ends with a non-zero result
\* and the stored revision unchanged, every other job having been executed.
C2_TransportErrorBlocksCommit ==
    (Ended /\ \E i \in DOMAIN log : log[i].result \in {"failed", "store_error"})
        => /\ exit_code # 0
           /\ RevisionNow = RevisionBefore
           /\ Queued \subseteq Executed

\* C3: out-of-sync abort.  When client.status answers anything but 'normal'
\* for a changed file, the next step of handle ends the run with a non-zero
\* exit: nothing is queued, no worker is constructed, no key of the bucket is
\* written or deleted and the stored revision is the one the run began with;
\* and a run that ended so stays so.
C3_Aborted ==
    /\ hpc = "exit" /\ exit_code # 0
    /\ buffer = <<>> /\ pipe = <<>>
    /\ Constructed = {}
    /\ log = <<>>
    /\ net_ops \cap {"put", "delete_key"} = {}
    /\ objects = objects_before
    /\ RevisionNow = RevisionBefore

C3_SomeOutOfSync ==
    \E i \in DOMAIN changed_files :
        wc_status[changed_files[i].filename] \in StatusKinds \ {"normal", "none"}

C3_OutOfSyncAbort ==
    /\ [][(hpc = "status" /\ C3_SomeOutOfSync) => C3_Aborted']_vars
    /\ [](exit_reason = "outofsync" => C3_Aborted)

\* C3 witness: a run aborted because the second of two changed files was
\* modified locally, the first being clean
C3_Witness ==
    /\ exit_reason = "outofsync"
    /\ Len(changed_files) = 2
    /\ wc_status[changed_files[1].filename] = "normal"
    /\ wc_status[changed_files[2].filename] = "modified"
    /\ RevisionBefore # local_repo_info.revision

AllWorkersSucceeded ==
    /\ Started # {}
    /\ \A w \in Started : Succeeded(w)

\* C4 (as claimed): after a run in which every worker ended with success the
\* stored revision is the revision of the local repository.
C4_SuccessStoresLocalRevision ==
    (Ended /\ AllWorkersSucceeded) => RevisionNow = local_repo_info.revision

\* C4 (amended): after a run that is not a dry run and in which every worker
\* ended with success, the stored revision is the revision of the local
\* repository read before the diff.
C4_SuccessStoresLocalRevisionUnlessDryRun ==
    (Ended /\ AllWorkersSucceeded /\ ~opt.dryrun)
        => RevisionNow = local_repo_info.revision

\* C4 witness: two workers each executed one of two jobs and the stored
\* revision moved to the local one
C4_Witness ==
    /\ Ended /\ AllWorkersSucceeded /\ ~opt.dryrun
    /\ \A w \in Workers : Len(LogOf(w)) = 1
    /\ conf_before.present /\ RevisionBefore > 0
    /\ RevisionBefore # local_repo_info.revision
    /\ RevisionNow = local_repo_info.revision

\* the batch of a run succeeded: handle polls and every worker it started has
\* ended with exit code 0
BatchSucceeded ==
    /\ hpc = "poll"
    /\ Started # {}
    /\ \A w \in Started : Succeeded(w)

\* C5 (as claimed): checkpoint monotonicity.  No step of any run lowers the
\* stored revision, and a step that changes it ends a batch in which every
\* worker succeeded.
C5_CheckpointMonotone ==
    [][/\ StoredRevision(svn_conf') >= StoredRevision(svn_conf)
       /\ StoredRevision(svn_conf') # StoredRevision(svn_conf)
            => BatchSucceeded]_vars

\* C5 (amended): a step that changes the stored revision ends a batch in
\* which every worker succeeded, in a run that is not a dry run, and stores
\* the revision of the local repository of that run; so the stored revision
\* is lowered only by a run whose local revision is below the stored one.
C5_CheckpointFollowsLocalRevision ==
    [][StoredRevision(svn_conf') # StoredRevision(svn_conf)
         => /\ BatchSucceeded
            /\ ~opt.dryrun
            /\ StoredRevision(svn_conf') = local_repo_info.revision
            /\ StoredRevision(svn_conf') < StoredRevision(svn_conf)
                 => local_repo_info.revision < RevisionBefore]_vars

\* C5 witness: a run whose two jobs were executed lowered a stored revision
C5_Witness ==
    /\ Ended /\ exit_reason = "finished"
    /\ conf_before.present /\ RevisionBefore >= 1
    /\ RevisionNow < RevisionBefore
    /\ Len(log) = 2

\* a worker waits in get() for an object nobody will put
BlockedOnQueue(w) == wpc[w] = "get" /\ pipe = <<>> /\ buffer = <<>>

\* C6 (as claimed): every run terminates; no worker waits for ever on the
\* shared queue.
C6_NoWorkerBlockedForever == \A w \in Workers : ~BlockedOnQueue(w)

C8_InitErrorFailsOneWorker ==
    (Ended /\ exit_reason = "init_error" /\ opt.processes_count >= 2)
        => Started # {}

\* C8 (amended): an error initialising a worker ends the whole run with a
\* non-zero exit before any worker is started: no job is executed, no key is
\* written or deleted and the stored revision is unchanged.
C8_InitErrorEndsRun ==
    exit_reason = "init_error"
        => /\ hpc = "exit" /\ exit_code # 0
           /\ Started = {}
           /\ log = <<>>
           /\ objects = objects_before
           /\ RevisionNow = RevisionBefore

\* C8 witness: the second of two workers could not be initialised, the first
\* had been
C8_Witness ==
    /\ exit_reason = "init_error"
    /\ opt.processes_count = 2
    /\ wpc[1] = "init" /\ wpc[2] = "unborn"
    /\ changed_files # <<>>

\* C9 (as claimed): skip correctness.  An upload without force of a file
\* whose key exists with a time of last modification greater than or equal
\* to the mtime of the file is skipped.
C9_SkipWhenNotNewer ==
    \A i \in DOMAIN log :
        (/\ ~opt.force /\ ~log[i].delete
         /\ log[i].s3_datetime # 0
         /\ log[i].s3_datetime >= log[i].local_datetime
         /\ log[i].result \notin {"failed", "store_error", "raised"})
        => (log[i].result = "skipped" /\ log[i].wrote = {})

\* C10 (as claimed): a dry run sends the object store no put, no delete, no
\* fetch of the metadata of a key and no creation of a bucket, and does not
\* write the revision key: the keys, the buckets and the stored revision are
\* as they were.  (Looking a bucket up and reading the revision key, which
\* the resolution of the change set needs, are not counted.)
C10_DryRunTouchesNothing ==
    (Running /\ opt.dryrun)
        => /\ net_ops \cap {"put", "delete_key", "get_key", "create_bucket", "put_conf"} = {}
           /\ cp_writes = 0
           /\ objects = objects_before
           /\ svn_conf = conf_before
           /\ <<svn_bucket_exists, bucket_exists>> = buckets_before

\* the stored url is set and is not the url of the working copy
C11_StoredUrlDiffers ==
    /\ opt.cmd = "s3-svnsync"
    /\ s3_svn_revision.url # ""
    /\ s3_svn_revision.url # local_repo_info.url

C11_Refused ==
    /\ hpc = "exit" /\ exit_code # 0
    /\ changed_files = <<>> /\ wc_status = NoStatus
    /\ buffer = <<>> /\ pipe = <<>>
    /\ Constructed = {}
    /\ log = <<>>
    /\ cp_writes = 0
    /\ svn_conf = conf_before

\* C11: repository-identity guard.  When the url stored in S3 is set and is
\* not the url of the working copy, the next step of handle without
\* --ignore-url ends the run with a non-zero exit before the diff is computed:
\* no file is queued, no worker is constructed and the revision key is the one
\* the run began with; with --ignore-url the same step computes the diff and
\* the run goes on to the status check.
C11_RepositoryIdentityGuard ==
    /\ [][(hpc = "resolve" /\ C11_StoredUrlDiffers)
            => IF opt.ignore_url
               THEN hpc' = "status" /\ exit_reason' = "none"
               ELSE C11_Refused' /\ exit_reason' = "url_mismatch"]_vars
    /\ [](exit_reason = "url_mismatch" => (C11_Refused /\ ~opt.ignore_url))

\* C11 witness: a run was refused because the revision key, written by a run
\* from the other url, names that url, and the working copy has changes to
\* send
C11_Witness ==
    /\ exit_reason = "url_mismatch"
    /\ conf_before.present /\ conf_before.data.url = "svn+ssh://host/repo"
    /\ local_repo_info.url = "file:///repo"
    /\ diff_summarize(FromRevision(conf_before.data), local_repo_info.revision) # <<>>

\* C12: delete cleanup.  A step of a worker that completes the delete of a
\* key, not in a dry run, leaves neither the key nor the key of its gzipped
\* copy in the bucket, whether or not either was there before, and touches no
\* other key; the worker goes on with the next file.
C12_DeleteCleanup ==
    [][\A w \in Workers :
          (/\ wpc[w] = "exec" /\ do_delete(wjob[w]) /\ ~opt.dryrun
           /\ wpc'[w] = "loop")
          => /\ wjob[w].file_key \notin objects'
             /\ GzFileKey(wjob[w].file_key) \notin objects'
             /\ objects' = objects \ {wjob[w].file_key, GzFileKey(wjob[w].file_key)}
             /\ exitcode'[w] = exitcode[w]]_vars

\* C12 witness: one run deleted a key together with its gzipped copy, and a
\* later step sees a completed delete of a key that was not in the bucket
C12_Witness ==
    /\ ~opt.dryrun
    /\ \E i \in DOMAIN log :
         /\ log[i].result = "deleted"
         /\ log[i].removed = {log[i].file_key, GzFileKey(log[i].file_key)}
    /\ \E i \in DOMAIN log :
         /\ log[i].result = "deleted"
         /\ log[i].removed = {}

\* the results handle can compute from workers of which one at least failed
C13_WorkerFailureCodes ==
    {ProcessResult(codes, n) : codes \in [Workers -> {0, 1}], n \in 1..MaxWorkers} \ {0}

C13_ZeroExactlyOnSuccess ==
    /\ exit_code = 0 <=> (AllWorkersSucceeded \/ exit_reason = "nochanges")
    /\ exit_reason = "nochanges" => (changed_files = <<>> /\ Started = {})

C13_FailureIsSum ==
    (\E w \in Workers : Failed(w))
        => /\ exit_code = ProcessResult(exitcode, opt.processes_count)
           /\ exit_code = Cardinality({w \in Workers : Failed(w)})
           /\ exit_code # 0

C14_NothingNew ==
    /\ opt.cmd = "s3-svnsync"
    /\ conf_before.present
    /\ RevisionBefore = local_repo_info.revision

\* C14: idempotence.  The step that stores the revision at the end of a
\* successful run leaves a revision from which the diff to the working copy
\* is empty; and a run that begins with the stored revision equal to the
\* revision of its working copy resolves no changed file, constructs and
\* starts no worker, executes nothing and exits 0.
C14_Idempotence ==
    /\ [][(hpc = "poll" /\ cp_writes' = cp_writes + 1)
            => ChangedFiles(diff_summarize(FromRevision(svn_conf'.data),
                                           local_repo_info.revision)) = <<>>]_vars
    /\ []((C14_NothingNew /\ hpc \notin {"idle", "start", "resolve"})
            => /\ changed_files = <<>>
               /\ hpc \in {"status", "exit"}
               /\ Constructed = {} /\ Started = {}
               /\ log = <<>>
               /\ objects = objects_before
               /\ Ended => (exit_code = 0 /\ exit_reason = "nochanges"))

\* C14 witness: a run at the second revision ended without changes, an
\* earlier run having uploaded the files of that revision and stored it
C14_Witness ==
    /\ C14_NothingNew /\ Ended
    /\ RevisionBefore = 2
    /\ {A_CSS, B_JS} \subseteq objects

\* the files of MEDIA_ROOT at a revision
C15_FilesAt(revision) ==
    {p \in Paths : NodeKind(p) = "file" /\ Tree(revision)[p] > 0}

\* C15 (as claimed): genesis sync.  In a run that finds no revision stored
\* (revision -1), the diff starts from the first revision of the log of the
\* working copy, and the changed files cover everything from that revision
\* through the current one: every file MEDIA_ROOT holds at the current
\* revision is among them as an upload.
C15_GenesisCoversEverything ==
    (opt.cmd = "s3-svnsync" /\ RevisionBefore = INITIAL_REVISION /\ hpc = "status")
        => /\ s3_svn_revision.revision = FirstRevision
           /\ s3_svn_revision.initial_revision = FirstRevision
           /\ \A p \in C15_FilesAt(local_repo_info.revision) :
                \E i \in DOMAIN changed_files :
                    changed_files[i].file_key = p /\ ~changed_files[i].delete

\* the entries of the diff of the run, as the status check finds them
C16_Changes == diff_summarize(s3_svn_revision.revision, local_repo_info.revision)

\* the changed files built from one entry of the diff
C16_JobsOf(change) ==
    {i \in DOMAIN changed_files : changed_files[i].file_key = change.path}

\* the position in the diff of the entry a changed file was built from
C16_EntryOf(i) ==
    CHOOSE k \in DOMAIN C16_Changes : C16_Changes[k].path = changed_files[i].file_key

\* C16: change-set classification.  Once handle has built the list of
\* changed files: an entry of the diff that is a directory with a change other
\* than a delete, or that has no change of content, gives no S3File; every
\* other entry gives exactly one, a delete when the entry is a delete and an
\* upload otherwise, its key and file name the path of the entry; every S3File
\* comes from an entry; and the list is in the order of the diff.
C16_Classification ==
    (opt.cmd = "s3-svnsync" /\ hpc = "status")
        => /\ \A k \in DOMAIN C16_Changes :
                LET change == C16_Changes[k] IN
                IF \/ change.node_kind = "dir" /\ change.summarize_kind # "delete"
                   \/ change.summarize_kind = "normal"
                THEN C16_JobsOf(change) = {}
                ELSE /\ Cardinality(C16_JobsOf(change)) = 1
                     /\ \A i \in C16_JobsOf(change) :
                          /\ changed_files[i].delete = (change.summarize_kind = "delete")
                          /\ changed_files[i].filename = change.path
           /\ \A i \in DOMAIN changed_files :
                \E k \in DOMAIN C16_Changes : i \in C16_JobsOf(C16_Changes[k])
           /\ \A i, j \in DOMAIN changed_files :
                i < j => C16_EntryOf(i) < C16_EntryOf(j)

\* C16 witness: a diff of a file without a change of content, a deleted file
\* and a deleted directory gave two deletes, in that order
C16_Witness ==
    /\ opt.cmd = "s3-svnsync" /\ hpc = "status"
    /\ Len(C16_Changes) = 3
    /\ C16_Changes[1].summarize_kind = "normal"
    /\ changed_files = <<S3File(B_JS, B_JS, TRUE), S3File(IMG, IMG, TRUE)>>

\* a key of the bucket that begins with the prefix: the prefixed key of a
\* path, or the key of its gzipped copy
C17_HasPrefix(key, prefix) ==
    \E p \in Paths :
        key \in {PrefixedKey(prefix, p), GzFileKey(PrefixedKey(prefix, p))}

\* C17 (as claimed): in an s3-svnsync run given a prefix that is not empty,
\* the key of every S3File and every key a worker writes to or deletes from
\* the bucket begins with the prefix.
C17_KeysCarryPrefix ==
    (opt.cmd = "s3-svnsync" /\ opt.prefix # "")
        => /\ \A i \in DOMAIN changed_files :
                C17_HasPrefix(changed_files[i].file_key, opt.prefix)
           /\ \A i \in DOMAIN log :
                \A key \in {log[i].file_key} \cup log[i].wrote \cup log[i].removed :
                    C17_HasPrefix(key, opt.prefix)

\* the step adds to the log the upload of a file of a gzipped content type,
\* done with --gzip and not in a dry run
C18_GzipUpload(entry) ==
    /\ entry.result = "uploaded"
    /\ opt.gzip /\ ~opt.dryrun
    /\ guess_type(entry.file_key) \in GZIP_CONTENT_TYPES

\* C18: gzip threshold.  A completed upload, with --gzip, of a file whose
\* content type is text/css, application/javascript or
\* application/x-javascript writes the key of the gzipped copy if and only if
\* the file has more than 1024 bytes: with more, the key is in the bucket
\* after the step; with 1024 bytes or fewer, the step changes nothing about
\* that key, writes the file itself and is counted as an upload.
C18_GzipThreshold ==
    [][Len(log') = Len(log) + 1 =>
        LET entry == log'[Len(log')]
            gz_file_key == GzFileKey(entry.file_key)
        IN  C18_GzipUpload(entry) =>
              /\ entry.file_key \in objects'
              /\ IF entry.file_size > GZIP_MIN_SIZE
                 THEN gz_file_key \in objects'
                 ELSE /\ (gz_file_key \in objects') = (gz_file_key \in objects)
                      /\ gz_file_key \notin entry.wrote
              /\ counts'[entry.worker].upload = counts[entry.worker].upload + 1
              /\ exitcode'[entry.worker] = exitcode[entry.worker]]_vars

\* C18 witness: one run uploaded with --gzip a stylesheet of 1024 bytes,
\* writing its key alone, and a script of 1025 bytes, writing both keys
C18_Witness ==
    /\ opt.gzip /\ ~opt.dryrun
    /\ \E i \in DOMAIN log :
         /\ log[i].result = "uploaded" /\ log[i].file_key = A_CSS
         /\ log[i].file_size = GZIP_MIN_SIZE /\ log[i].wrote = {A_CSS}
    /\ \E i \in DOMAIN log :
         /\ log[i].result = "uploaded" /\ log[i].file_key = B_JS
         /\ log[i].file_size = GZIP_MIN_SIZE + 1
         /\ log[i].wrote = {B_JS, GzFileKey(B_JS)}

\* the files workers hold and have not yet executed
C19_InHand == {w \in Workers : wpc[w] = "exec"}

\* C19: each file is taken by exactly one worker.  In every state of a run,
\* no file key is executed twice, by one worker or by two; no two workers
\* hold the same file; no worker holds a file that was executed or that is
\* still in the queue; and every file taken came from the list of the run.
C19_ExactlyOneWorker ==
    /\ \A i, j \in DOMAIN log : i # j => log[i].file_key # log[j].file_key
    /\ \A v, w \in C19_InHand : v # w => wjob[v].file_key # wjob[w].file_key
    /\ \A w \in C19_InHand :
         /\ wjob[w].file_key \notin Executed
         /\ \A i \in DOMAIN pipe : pipe[i].file_key # wjob[w].file_key
         /\ \A i \in DOMAIN buffer : buffer[i].file_key # wjob[w].file_key
         /\ wjob[w].file_key \in Queued
    /\ Executed \subseteq Queued

\* C19 witness: two workers were started on a queue of two files and each
\* executed one of them while the other held or had executed the other
C19_Witness ==
    /\ Len(changed_files) = 2 /\ Len(log) = 2
    /\ log[1].worker # log[2].worker
    /\ log[1].file_key # log[2].file_key

\* C20 (as claimed): the out-of-sync abort precedes all network I/O: a run
\* that ended so has sent the object store no request, and has read, created
\* and written neither the revision key nor its bucket.
C20_AbortBeforeNetwork ==
    exit_reason = "outofsync"
        => /\ net_ops = {}
           /\ svn_conf = conf_before
           /\ <<svn_bucket_exists, bucket_exists>> = buckets_before

\* C20 (amended): the out-of-sync abort follows the read of the revision key
\* and precedes every other use of the object store.  The step that aborts
\* sends no request; the run that ended so has looked up the svn bucket,
\* creating it when it was missing, and read the revision key, writing the
\* default one when it was missing and the run is not a dry run, and has
\* done nothing else: the media bucket was not looked up and no key of it was
\* fetched, written or deleted.
C20_AbortAfterCheckpointRead ==
    /\ [][(hpc = "status" /\ C3_SomeOutOfSync)
            => /\ hpc' = "exit" /\ exit_reason' = "outofsync"
               /\ net_ops' = net_ops
               /\ UNCHANGED store_vars]_vars
    /\ [](exit_reason = "outofsync"
            => /\ {"get_bucket", "get_conf"} \subseteq net_ops
               /\ net_ops \subseteq {"get_bucket", "get_conf", "create_bucket", "put_conf"}
               /\ "create_bucket" \in net_ops <=> ~buckets_before[1]
               /\ "put_conf" \in net_ops <=> (~conf_before.present /\ ~opt.dryrun)
               /\ svn_conf # conf_before <=> "put_conf" \in net_ops
               /\ svn_bucket_exists
               /\ bucket_exists = buckets_before[2]
               /\ objects = objects_before)

\* C20 witness: the first run against an empty store was aborted as out of
\* sync after it had created the svn bucket and written the default revision
\* key
C20_Witness ==
    /\ exit_reason = "outofsync"
    /\ ~buckets_before[1] /\ ~conf_before.present
    /\ svn_bucket_exists /\ svn_conf = KeyOf(DefaultRevision)
    /\ {"create_bucket", "put_conf"} \subseteq net_ops

\* the writes of the revision key at the start of the run: the default dict,
\* when the key is missing and the run is not a dry run
C21_WritesAtStart == IF ~conf_before.present /\ ~opt.dryrun THEN 1 ELSE 0

\* C21 (as claimed): within an s3-svnsync run the revision key is written
\* exactly once when the run succeeded and not at all otherwise, and never
\* before the end of the run, also when the key does not exist yet.
C21_WrittenOnceOnSuccess ==
    (Running /\ opt.cmd = "s3-svnsync")
        => /\ ~Ended => cp_writes = 0
           /\ Ended => cp_writes = (IF AllWorkersSucceeded THEN 1 ELSE 0)

\* C21 (amended): a dry run never writes the revision key.  Any other run
\* that finds no revision key writes the default one (revision -1) when it
\* reads it, at its start; no run writes between that and its end; and the
\* run writes the key once more at its end exactly when every worker
\* succeeded.  So a run writes once on success and not at all otherwise only
\* when the key existed before.
C21_WrittenAtStartAndOnSuccess ==
    (Running /\ opt.cmd = "s3-svnsync")
        => /\ hpc = "start" => cp_writes = 0
           /\ hpc \notin {"start", "exit"} => cp_writes = C21_WritesAtStart
           /\ Ended => cp_writes = C21_WritesAtStart +
                          (IF AllWorkersSucceeded /\ ~opt.dryrun THEN 1 ELSE 0)
           /\ cp_writes = 0 => svn_conf = conf_before
           /\ (cp_writes = 1 /\ C21_WritesAtStart = 1) => svn_conf = KeyOf(DefaultRevision)
           /\ opt.dryrun => cp_writes = 0

\* C21 witness: a successful run that found no revision key wrote it twice,
\* and two workers had executed its two files
C21_Witness ==
    /\ Ended /\ AllWorkersSucceeded
    /\ ~conf_before.present
    /\ cp_writes = 2
    /\ Len(log) = 2

\* C22: no write of the revision key overlaps the workers.  A step that
\* writes the key is a step of handle, taken when it reads the key at the
\* start or when it polls at the end; no worker is alive before or after
\* the step, and the step changes nothing of any worker.
C22_NoWriteWhileWorkersAlive ==
    [][(svn_conf' # svn_conf \/ cp_writes' > cp_writes)
        => /\ hpc \in {"start", "poll"}
           /\ hpc' \in {"resolve", "exit"}
           /\ \A w \in Workers : ~Alive(w)
           /\ hpc = "start" => Started = {}
           /\ hpc = "poll" => (Started # {} /\ \A w \in Started : wpc[w] = "exited")
           /\ UNCHANGED worker_vars]_vars

\* C22 witness: the revision key was written at the end of a run whose two
\* workers had both executed a file and ended
C22_Witness ==
    /\ Ended /\ exit_reason = "finished" /\ ~opt.dryrun
    /\ svn_conf # conf_before /\ conf_before.present
    /\ \A w \in Workers : wpc[w] = "exited" /\ LogOf(w) # <<>>

\* the keys a file touches: its key and the key of its gzipped copy
C23_Touched(s3_file) == {s3_file.file_key, GzFileKey(s3_file.file_key)}

\* C23 (as claimed): no two files of a run touch the same key.  The paths of
\* the changed files being distinct, no two workers ever hold, at the same
\* time, files whose keys or gzipped-copy keys coincide.
C23_NoKeyTargetedTwice ==
    \A v, w \in Workers :
        (v # w /\ wpc[v] = "exec" /\ wpc[w] = "exec"
              /\ wjob[v].filename # wjob[w].filename)
            => C23_Touched(wjob[v]) \cap C23_Touched(wjob[w]) = {}

\* the diff from the revision the run found stored gives no changed file
C24_EmptyChangeSet ==
    /\ opt.cmd = "s3-svnsync"
    /\ ChangedFiles(diff_summarize(FromRevision(conf_before.data),
                                   local_repo_info.revision)) = <<>>

C24_NothingDone ==
    /\ exit_code = 0 /\ exit_reason = "nochanges"
    /\ buffer = <<>> /\ pipe = <<>>
    /\ Constructed = {} /\ Started = {}
    /\ log = <<>>
    /\ net_ops \cap {"put", "delete_key", "get_key"} = {}
    /\ objects = objects_before
    /\ bucket_exists = buckets_before[2]
    /\ RevisionNow = RevisionBefore

\* C24 (as claimed): a run whose change set is empty is a clean no-op: it
\* exits 0, constructs and starts no worker, uploads and deletes nothing and
\* does not write the revision key, so that the stored revision keeps its
\* value even when the revision of the working copy is higher.
C24_EmptyChangeSetNoOp ==
    (Ended /\ C24_EmptyChangeSet)
        => /\ C24_NothingDone
           /\ cp_writes = 0
           /\ svn_conf = conf_before

\* C24 (amended): the same, but a run that found no revision key and is not
\* a dry run has written the default one (revision -1) at its start; a run
\* that found a revision key leaves it as it was.
C24_EmptyChangeSetKeepsRevision ==
    (Ended /\ C24_EmptyChangeSet)
        => /\ C24_NothingDone
           /\ cp_writes = C21_WritesAtStart
           /\ conf_before.present => svn_conf = conf_before
           /\ ~conf_before.present =>
                svn_conf = SetS3Revision(conf_before, DefaultRevision, opt.dryrun)

\* C24 witness: a run at the fourth revision found the third stored and no
\* change between them, and left the third stored
C24_Witness ==
    /\ Ended /\ C24_EmptyChangeSet
    /\ RevisionBefore = 3 /\ local_repo_info.revision = 4
    /\ RevisionNow = 3

\* C25 (as claimed): a commit of the revision implies a drained batch.  At
\* the end of a run that changed the stored revision the queue is empty and
\* every changed file of the run has been taken from it and executed, once.
C25_CommitImpliesDrained ==
    (Ended /\ opt.cmd = "s3-svnsync" /\ RevisionNow # RevisionBefore)
        => /\ buffer = <<>> /\ pipe = <<>>
           /\ Queued = Executed
           /\ Len(log) = Len(changed_files)

\* the url a successful run leaves stored: with --ignore-url the url it found
\* stored (none, when there was no revision key), else that of the working copy
C26_UrlLeft ==
    IF opt.ignore_url THEN conf_before.data.url ELSE local_repo_info.url

C26_IdentityStored ==
    /\ svn_conf.present
    /\ svn_conf.data.url = C26_UrlLeft
    /\ svn_conf.data.uuid = local_repo_info.uuid

\* a run is refused for the url alone, whatever uuid is stored
C26_UuidNotCompared ==
    exit_reason = "url_mismatch"
        => /\ conf_before.data.url \notin {"", local_repo_info.url}
           /\ ~opt.ignore_url

\* C26 (as claimed): identity fields on commit.  After a run in which every
\* worker succeeded, the stored url is the url of the working copy, or with
\* --ignore-url the url stored before; in both cases the stored uuid is the
\* uuid of the working copy, and no run is refused because of the uuid.
C26_IdentityOnCommit ==
    /\ (Ended /\ opt.cmd = "s3-svnsync" /\ AllWorkersSucceeded) => C26_IdentityStored
    /\ C26_UuidNotCompared

\* C26 (amended): the same for a run that is not a dry run; a dry run leaves
\* the revision key, its url and its uuid as they were.
C26_IdentityOnCommitUnlessDryRun ==
    /\ (Ended /\ opt.cmd = "s3-svnsync" /\ AllWorkersSucceeded)
          => IF opt.dryrun THEN svn_conf = conf_before ELSE C26_IdentityStored
    /\ C26_UuidNotCompared

\* C26 witness: a run with --ignore-url from another url and with another
\* uuid than the stored ones succeeded: the url was kept and the uuid replaced
C26_Witness ==
    /\ Ended /\ AllWorkersSucceeded /\ ~opt.dryrun /\ opt.ignore_url
    /\ log # <<>>
    /\ conf_before.present
    /\ conf_before.data.url = "svn+ssh://host/repo"
    /\ conf_before.data.uuid = "uuid-2"
    /\ local_repo_info.url = "file:///repo"
    /\ local_repo_info.uuid = LocalUuid
    /\ svn_conf.data.url = "svn+ssh://host/repo"
    /\ svn_conf.data.uuid = LocalUuid

=============================================================================
